---------------------------- MODULE Spec2Model ----------------------------
(***************************************************************************)
(* What-if analysis notebook (WhatIf_Analysis_Legacy_Method.ipynb).        *)
(*                                                                         *)
(* Two state machines share this module:                                   *)
(*   Spec     the pipeline cells: datasets, imports, wait loops, predictor,*)
(*            forecasts, run top to bottom against the Forecast service;   *)
(*   SpecGen  the data-preparation cells: split, extend RTS to the         *)
(*            forecast horizon, create the price-increase variant.         *)
(* SpecFair is Spec with the fairness of a kernel that keeps executing     *)
(* cells and of a service whose jobs keep making progress.                 *)
(***************************************************************************)
EXTENDS Integers, Sequences, FiniteSets, TLC

VARIABLES
    pc,          \* the notebook cell (or statement) the kernel is at
    loop,        \* position inside the current wait loop
    status,      \* the notebook global `status`
    polled,      \* statuses returned by describe_* in the current wait loop
    reported,    \* statuses handed to status_indicator.update in the current loop
    sleeps,      \* number of time.sleep(10) calls in the current wait loop
    jobStatus,   \* service side: Status of each asynchronous resource
    observed,    \* per job: `status` when its wait loop was left ("NONE" before)
    calls,       \* log of the create_* calls made to the service, in order
    nb,          \* notebook globals holding ARNs (0 = not yet assigned)
    phase,       \* data-preparation cell position
    df,          \* rows read from ./data/product_demand.csv
    df_tts,      \* target time series rows
    df_rts,      \* related time series rows (notebook global df_rts)
    df_rts1,     \* first variation of the related time series
    df_rts2,     \* second variation of the related time series
    training_data_period, \* (min, max) timestamp of df_tts
    horizon,     \* number of periods the extend cell appends
    base_rts,    \* df_rts as it was before the extend cell first ran
    extends,     \* number of times the extend cell has run
    cmp,         \* position inside plot_compare
    item_id,     \* argument of plot_compare (0 before the first call)
    df_item_actual, \* rows of df_tts of that item
    response,    \* result of the last query_forecast
    lines,       \* plt.plot calls of the current figure
    bands        \* plt.fill_between calls of the current figure

pvars == <<pc, loop, status, polled, reported, sleeps, jobStatus, observed, calls, nb>>
gvars == <<phase, df, df_tts, df_rts, df_rts1, df_rts2, training_data_period,
           horizon, base_rts, extends>>
cvars == <<cmp, item_id, df_item_actual, response, lines, bands>>
vars == <<pvars, gvars, cvars>>

-----------------------------------------------------------------------------
(* Bounds *)

\* a wait loop observes at most this many non-terminal statuses
MaxPolls == 3

\* an item has at most this many historical rows in product_demand.csv
MaxRows == 2

\* the extend cell is run at most this many times
MaxExtends == 2

-----------------------------------------------------------------------------
(* Forecast service: asynchronous resources and their Status *)

Jobs == {"tts_import", "rts_import1", "predictor", "forecast1", "rts_import2", "forecast2"}

ImportJobs == {"tts_import", "rts_import1", "rts_import2"}

ForecastJobs == {"forecast1", "forecast2"}

Statuses == {"CREATE_PENDING", "CREATE_IN_PROGRESS", "ACTIVE", "CREATE_FAILED"}

\* a job of the service no longer changes once it is ACTIVE or CREATE_FAILED
JobTerminal(s) == s \in {"ACTIVE", "CREATE_FAILED"}

\* the service works on a submitted job: pending -> in progress -> ACTIVE or CREATE_FAILED
RemoteProgress(j) ==
    /\ pc \notin {"done", "raised"}
    /\ jobStatus[j] \in {"CREATE_PENDING", "CREATE_IN_PROGRESS"}
    /\ \E s \in Statuses :
         /\ \/ jobStatus[j] = "CREATE_PENDING" /\ s \in {"CREATE_IN_PROGRESS", "CREATE_FAILED"}
            \/ jobStatus[j] = "CREATE_IN_PROGRESS" /\ s \in {"ACTIVE", "CREATE_FAILED"}
         /\ jobStatus' = [jobStatus EXCEPT ![j] = s]
    /\ UNCHANGED <<pc, loop, status, polled, reported, sleeps, observed, calls, nb>>
    /\ UNCHANGED <<gvars, cvars>>

\* a create_* call answered by the service: logged, and a fresh ARN returned
Created(op, name, ref) ==
    Append(calls, [op |-> op, name |-> name, ref |-> ref, arn |-> Len(calls) + 1])

NewArn == Len(calls) + 1


-----------------------------------------------------------------------------
(* Pipeline cells: create DatasetGroup and Datasets *)

NoLoopChange == UNCHANGED <<loop, status, polled, reported, sleeps, observed>>

\* forecast.create_dataset_group(...); dataset_group_arn = response['DatasetGroupArn']
create_dataset_group ==
    /\ pc = "create_dataset_group"
    /\ calls' = Created("create_dataset_group", "whatif_analysis_dsg", 0)
    /\ nb' = [nb EXCEPT !.dataset_group_arn = NewArn]
    /\ pc' = "create_dataset_tts"
    /\ NoLoopChange /\ UNCHANGED jobStatus /\ UNCHANGED <<gvars, cvars>>

\* forecast.create_dataset(DatasetType = 'TARGET_TIME_SERIES', ...)
create_dataset_tts ==
    /\ pc = "create_dataset_tts"
    /\ calls' = Created("create_dataset", "TARGET_TIME_SERIES", 0)
    /\ nb' = [nb EXCEPT !.tts_dataset_arn = NewArn]
    /\ pc' = "create_dataset_rts"
    /\ NoLoopChange /\ UNCHANGED jobStatus /\ UNCHANGED <<gvars, cvars>>

\* forecast.create_dataset(DatasetType = 'RELATED_TIME_SERIES', ...)
create_dataset_rts ==
    /\ pc = "create_dataset_rts"
    /\ calls' = Created("create_dataset", "RELATED_TIME_SERIES", 0)
    /\ nb' = [nb EXCEPT !.rts_dataset_arn = NewArn]
    /\ pc' = "update_dataset_group"
    /\ NoLoopChange /\ UNCHANGED jobStatus /\ UNCHANGED <<gvars, cvars>>

\* forecast.update_dataset_group(DatasetGroupArn, DatasetArns = [tts, rts])
update_dataset_group ==
    /\ pc = "update_dataset_group"
    /\ pc' = "import_tts"
    /\ NoLoopChange /\ UNCHANGED <<jobStatus, calls, nb>> /\ UNCHANGED <<gvars, cvars>>

-----------------------------------------------------------------------------
(* Pipeline cells: submissions of asynchronous jobs *)

\* one forecast.create_dataset_import_job cell: job name, dataset global, ARN global
SubmitImport(cell, job, dataset, global, next) ==
    /\ pc = cell
    /\ calls' = Created("create_dataset_import_job", job, nb[dataset])
    /\ nb' = [nb EXCEPT ![global] = NewArn]
    /\ jobStatus' = [jobStatus EXCEPT ![job] = "CREATE_PENDING"]
    /\ pc' = next
    /\ NoLoopChange /\ UNCHANGED <<gvars, cvars>>

\* DatasetImportJobName = project + "_tts_import", DatasetArn = tts_dataset_arn
import_tts ==
    SubmitImport("import_tts", "tts_import", "tts_dataset_arn",
                 "tts_dataset_import_job_arn", "import_rts1")

\* DatasetImportJobName = project + "_rts_import1", DatasetArn = rts_dataset_arn
import_rts1 ==
    SubmitImport("import_rts1", "rts_import1", "rts_dataset_arn",
                 "rts_dataset_import_job1_arn", "wait_tts_import")

\* mutant: the wait cell after the second RTS import is skipped
import_rts2_nowait ==
    SubmitImport("import_rts2", "rts_import2", "rts_dataset_arn",
                 "rts_dataset_import_job2_arn", "create_forecast2")

\* mutant: the second variation is imported into another dataset
import_rts2_other_dataset ==
    SubmitImport("import_rts2", "rts_import2", "tts_dataset_arn",
                 "rts_dataset_import_job2_arn", "wait_rts_import2")

\* DatasetImportJobName = project + "_rts_import2", DatasetArn = rts_dataset_arn
import_rts2 ==
    SubmitImport("import_rts2", "rts_import2", "rts_dataset_arn",
                 "rts_dataset_import_job2_arn", "wait_rts_import2")

\* mutant: the predictor is not awaited
create_auto_predictor_nowait ==
    /\ pc = "create_auto_predictor"
    /\ calls' = Created("create_auto_predictor", "predictor", nb.dataset_group_arn)
    /\ nb' = [nb EXCEPT !.predictor_arn = NewArn]
    /\ jobStatus' = [jobStatus EXCEPT !["predictor"] = "CREATE_PENDING"]
    /\ pc' = "get_accuracy_metrics"
    /\ NoLoopChange /\ UNCHANGED <<gvars, cvars>>

\* forecast.create_auto_predictor(..., DataConfig = {'DatasetGroupArn': dataset_group_arn})
create_auto_predictor ==
    /\ pc = "create_auto_predictor"
    /\ calls' = Created("create_auto_predictor", "predictor", nb.dataset_group_arn)
    /\ nb' = [nb EXCEPT !.predictor_arn = NewArn]
    /\ jobStatus' = [jobStatus EXCEPT !["predictor"] = "CREATE_PENDING"]
    /\ pc' = "wait_predictor"
    /\ NoLoopChange /\ UNCHANGED <<gvars, cvars>>

\* forecast.get_accuracy_metrics(PredictorArn = predictor_arn) and the prints
get_accuracy_metrics ==
    /\ pc = "get_accuracy_metrics"
    /\ pc' = "create_forecast1"
    /\ NoLoopChange /\ UNCHANGED <<jobStatus, calls, nb>> /\ UNCHANGED <<gvars, cvars>>

\* one forecast.create_forecast cell: PredictorArn = predictor_arn
SubmitForecast(cell, job, global, next) ==
    /\ pc = cell
    /\ calls' = Created("create_forecast", job, nb.predictor_arn)
    /\ nb' = [nb EXCEPT ![global] = NewArn]
    /\ jobStatus' = [jobStatus EXCEPT ![job] = "CREATE_PENDING"]
    /\ pc' = next
    /\ NoLoopChange /\ UNCHANGED <<gvars, cvars>>

\* mutant: the wait cell after the first forecast is skipped
create_forecast1_nowait ==
    SubmitForecast("create_forecast1", "forecast1", "forecast1_arn", "import_rts2")

create_forecast1 ==
    SubmitForecast("create_forecast1", "forecast1", "forecast1_arn", "wait_forecast1")

create_forecast2 ==
    SubmitForecast("create_forecast2", "forecast2", "forecast2_arn", "wait_forecast2")

-----------------------------------------------------------------------------
(* Pipeline cells: wait loops *)

\* the cells that wait for a job, the job each polls and the cell that follows
WaitJob(cell) ==
    CASE cell = "wait_tts_import"  -> "tts_import"
      [] cell = "wait_rts_import1" -> "rts_import1"
      [] cell = "wait_predictor"   -> "predictor"
      [] cell = "wait_forecast1"   -> "forecast1"
      [] cell = "wait_rts_import2" -> "rts_import2"
      [] cell = "wait_forecast2"   -> "forecast2"

\* mutant: a predictor is trained again for the second variation
AfterWait_retrain(cell) ==
    CASE cell = "wait_tts_import"  -> "wait_rts_import1"
      [] cell = "wait_rts_import1" -> "create_auto_predictor"
      [] cell = "wait_predictor"   -> "get_accuracy_metrics"
      [] cell = "wait_forecast1"   -> "import_rts2"
      [] cell = "wait_rts_import2" -> "create_auto_predictor"
      [] cell = "wait_forecast2"   -> "resource_cleanup"

\* mutant: the wait cell of the first RTS import is skipped
AfterWait_skip_rts1(cell) ==
    CASE cell = "wait_tts_import"  -> "create_auto_predictor"
      [] cell = "wait_rts_import1" -> "create_auto_predictor"
      [] cell = "wait_predictor"   -> "get_accuracy_metrics"
      [] cell = "wait_forecast1"   -> "import_rts2"
      [] cell = "wait_rts_import2" -> "create_forecast2"
      [] cell = "wait_forecast2"   -> "resource_cleanup"

AfterWait(cell) ==
    CASE cell = "wait_tts_import"  -> "wait_rts_import1"
      [] cell = "wait_rts_import1" -> "create_auto_predictor"
      [] cell = "wait_predictor"   -> "get_accuracy_metrics"
      [] cell = "wait_forecast1"   -> "import_rts2"
      [] cell = "wait_rts_import2" -> "create_forecast2"
      [] cell = "wait_forecast2"   -> "resource_cleanup"

InlineWaitCells == {"wait_tts_import", "wait_rts_import1", "wait_forecast1",
                    "wait_rts_import2", "wait_forecast2"}

WaitCells == InlineWaitCells \cup {"wait_predictor"}

\* mutant: the loop is left on ACTIVE only
BreakStatuses_active_only == {"ACTIVE"}

\* if status in ('ACTIVE', 'CREATE_FAILED'): break
BreakStatuses == {"ACTIVE", "CREATE_FAILED"}

\* status_indicator = util.StatusIndicator()
NewStatusIndicator(cell) ==
    /\ pc = cell /\ loop = "init"
    /\ reported' = <<>> /\ polled' = <<>> /\ sleeps' = 0
    /\ loop' = "describe"
    /\ UNCHANGED <<pc, status, jobStatus, observed, calls, nb>> /\ UNCHANGED <<gvars, cvars>>

\* status = forecast.describe_...(Arn)['Status']
Describe(cell) ==
    /\ pc = cell /\ loop = "describe"
    /\ Len(polled) < MaxPolls \/ JobTerminal(jobStatus[WaitJob(cell)])
    /\ status' = jobStatus[WaitJob(cell)]
    /\ polled' = Append(polled, jobStatus[WaitJob(cell)])
    /\ loop' = "update"
    /\ UNCHANGED <<pc, reported, sleeps, jobStatus, observed, calls, nb>> /\ UNCHANGED <<gvars, cvars>>

\* mutant: the status is only reported when the loop goes on
StatusUpdate_after_break(cell) ==
    /\ pc = cell /\ loop = "update"
    /\ reported' = IF status \in {"ACTIVE", "CREATE_FAILED"} THEN reported
                   ELSE Append(reported, status)
    /\ loop' = "check"
    /\ UNCHANGED <<pc, status, polled, sleeps, jobStatus, observed, calls, nb>> /\ UNCHANGED <<gvars, cvars>>

\* status_indicator.update(status)
StatusUpdate(cell) ==
    /\ pc = cell /\ loop = "update"
    /\ reported' = Append(reported, status)
    /\ loop' = "check"
    /\ UNCHANGED <<pc, status, polled, sleeps, jobStatus, observed, calls, nb>> /\ UNCHANGED <<gvars, cvars>>

\* mutant: the loop gives up after two polls
Check_timeout(cell) ==
    /\ pc = cell /\ loop = "check"
    /\ loop' = IF status \in {"ACTIVE", "CREATE_FAILED"} \/ Len(polled) >= 2 THEN "end" ELSE "sleep"
    /\ UNCHANGED <<pc, status, polled, reported, sleeps, jobStatus, observed, calls, nb>>
    /\ UNCHANGED <<gvars, cvars>>

\* mutant: CREATE_FAILED is raised as an error
Check_throw(cell) ==
    /\ pc = cell /\ loop = "check"
    /\ IF status = "CREATE_FAILED"
         THEN pc' = "raised" /\ loop' = loop
         ELSE pc' = pc /\ loop' = (IF status = "ACTIVE" THEN "end" ELSE "sleep")
    /\ UNCHANGED <<status, polled, reported, sleeps, jobStatus, observed, calls, nb>>
    /\ UNCHANGED <<gvars, cvars>>

\* if status in ('ACTIVE', 'CREATE_FAILED'): break
Check(cell) ==
    /\ pc = cell /\ loop = "check"
    /\ loop' = IF status \in BreakStatuses THEN "end" ELSE "sleep"
    /\ UNCHANGED <<pc, status, polled, reported, sleeps, jobStatus, observed, calls, nb>>
    /\ UNCHANGED <<gvars, cvars>>

\* time.sleep(10)
Sleep(cell) ==
    /\ pc = cell /\ loop = "sleep"
    /\ sleeps' = sleeps + 1
    /\ loop' = "describe"
    /\ UNCHANGED <<pc, status, polled, reported, jobStatus, observed, calls, nb>> /\ UNCHANGED <<gvars, cvars>>

\* status_indicator.end(): the loop is left and the next cell runs
StatusEnd(cell) ==
    /\ pc = cell /\ loop = "end"
    /\ observed' = [observed EXCEPT ![WaitJob(cell)] = status]
    /\ pc' = AfterWait(cell)
    /\ loop' = "init"
    /\ UNCHANGED <<status, polled, reported, sleeps, jobStatus, calls, nb>> /\ UNCHANGED <<gvars, cvars>>

WaitStep(cell) ==
    \/ NewStatusIndicator(cell)
    \/ Describe(cell)
    \/ StatusUpdate(cell)
    \/ Check(cell)
    \/ Sleep(cell)
    \/ StatusEnd(cell)

\* status = util.wait(lambda: forecast.describe_auto_predictor(PredictorArn=predictor_arn))
util_wait == WaitStep("wait_predictor")

\* mutant: the first clean-up line is not commented out
resource_cleanup_uncommented ==
    /\ pc = "resource_cleanup"
    /\ calls' = Append(calls, [op |-> "delete_forecast", name |-> "forecast1",
                               ref |-> nb.forecast1_arn, arn |-> 0])
    /\ pc' = "done"
    /\ NoLoopChange /\ UNCHANGED <<jobStatus, nb>> /\ UNCHANGED <<gvars, cvars>>

\* cells "Resource cleanup": every util.wait_till_delete(... delete_* ...) line is a comment
resource_cleanup ==
    /\ pc = "resource_cleanup"
    /\ pc' = "done"
    /\ NoLoopChange /\ UNCHANGED <<jobStatus, calls, nb>> /\ UNCHANGED <<gvars, cvars>>

\* a call to the service raises (botocore ClientError): the run stops at that cell
ClientError ==
    /\ pc \notin {"done", "raised", "resource_cleanup"}
    /\ pc \in WaitCells => loop = "describe"
    /\ pc' = "raised"
    /\ UNCHANGED <<loop, status, polled, reported, sleeps, jobStatus, observed, calls, nb>>
    /\ UNCHANGED <<gvars, cvars>>

-----------------------------------------------------------------------------
(* Data preparation: timestamps and rows *)

\* A timestamp string "YYYY-MM-DD" is the tuple <<YYYY, MM, DD>> of its
\* zero-padded fields, so that the order of the strings is the lexicographic
\* order of the tuples. An item_id "item_NNN" is the number NNN, whose order
\* is the order of the zero-padded strings. A price is in tenths.

\* str < str on "YYYY-MM-DD" strings
TsLess(a, b) ==
    \/ a[1] < b[1]
    \/ a[1] = b[1] /\ a[2] < b[2]
    \/ a[1] = b[1] /\ a[2] = b[2] /\ a[3] < b[3]

\* mutant: the timestamp of the last row instead of the maximum
TsMax_last_row(rows) == rows[Len(rows)].timestamp

\* Series.max() / Series.min() of a timestamp column
TsMax(rows) ==
    CHOOSE t \in {rows[i].timestamp : i \in DOMAIN rows} :
        \A i \in DOMAIN rows : ~TsLess(t, rows[i].timestamp)

TsMin(rows) ==
    CHOOSE t \in {rows[i].timestamp : i \in DOMAIN rows} :
        \A i \in DOMAIN rows : ~TsLess(rows[i].timestamp, t)

\* pd.to_datetime("YYYY-MM-DD")
to_datetime(ts) == [year |-> ts[1], month |-> ts[2], day |-> ts[3]]

\* date.strftime("%Y-%m-%d")
strftime(date) == <<date.year, date.month, date.day>>

\* for i in range(3): the number of periods appended
forecast_horizon == 3

\* "item_010", the last item whose price is increased
LastIncreasedItem == 10

-----------------------------------------------------------------------------
(* Data preparation cells *)

\* df[["item_id", "timestamp", "demand"]]
Tts(rows) ==
    [i \in DOMAIN rows |->
        [item_id |-> rows[i].item_id, timestamp |-> rows[i].timestamp,
         demand |-> rows[i].demand]]

\* df[["item_id", "timestamp", "price"]]
Rts(rows) ==
    [i \in DOMAIN rows |->
        [item_id |-> rows[i].item_id, timestamp |-> rows[i].timestamp,
         price |-> rows[i].price]]

\* df_tts = df[["item_id", "timestamp", "demand"]]; df_rts = df[[..., "price"]]
split ==
    /\ phase = "split"
    /\ df_tts' = Tts(df)
    /\ df_rts' = Rts(df)
    /\ base_rts' = df_rts'
    /\ phase' = "extend"
    /\ UNCHANGED <<df, df_rts1, df_rts2, training_data_period, horizon, extends>>
    /\ UNCHANGED <<pvars, cvars>>

\* mutant: December is not special
NextMonth_no_rollover(date) == [year |-> date.year, month |-> date.month + 1, day |-> 1]

\* if date.month == 12: date(year+1, 1, 1) else: date(year, month+1, 1)
NextMonth(date) ==
    IF date.month = 12
      THEN [year |-> date.year + 1, month |-> 1, day |-> 1]
      ELSE [year |-> date.year, month |-> date.month + 1, day |-> 1]

\* df_rts_extend["timestamp"] = date.strftime("%Y-%m-%d")
SetTimestamp(rows, ts) == [i \in DOMAIN rows |-> [rows[i] EXCEPT !.timestamp = ts]]

\* the body of `for i in range(n)`: advance the date, restamp, append
RECURSIVE ExtendLoop(_, _, _, _)
ExtendLoop(rts, rts_extend, date, n) ==
    IF n = 0
      THEN rts
      ELSE LET next == NextMonth(date)
               stamped == SetTimestamp(rts_extend, strftime(next))
           IN  ExtendLoop(rts \o stamped, stamped, next, n - 1)

\* df_rts[ df_rts["timestamp"] == training_data_period[1] ].copy()
RowsAt(rows, ts) == SelectSeq(rows, LAMBDA r : r.timestamp = ts)

\* the extend cell, appending n periods
Extended(rts, tts, n) ==
    ExtendLoop(rts, RowsAt(rts, TsMax(tts)), to_datetime(TsMax(tts)), n)

\* cell "# extend RTS to forecast horizon"; the notebook lets a cell be run again
extend_rts ==
    /\ phase \in {"extend", "scenario"}
    /\ extends < MaxExtends
    /\ training_data_period' = <<TsMin(df_tts), TsMax(df_tts)>>
    /\ df_rts' = Extended(df_rts, df_tts, horizon)
    /\ extends' = extends + 1
    /\ phase' = "scenario"
    /\ UNCHANGED <<df, df_tts, df_rts1, df_rts2, horizon, base_rts>>
    /\ UNCHANGED <<pvars, cvars>>

\* mutant: the window starts at the last training timestamp instead of after it
Mask_from_boundary(row, period) ==
    /\ ~TsLess(row.timestamp, period[2])
    /\ row.item_id <= LastIncreasedItem

\* ( df_rts2["timestamp"] > training_data_period[1] ) & ( df_rts2["item_id"] <= "item_010" )
Mask(row, period) ==
    /\ TsLess(period[2], row.timestamp)
    /\ row.item_id <= LastIncreasedItem

\* mutant: the increase is applied twice
Increase_twice(price) == (((price * 11) \div 10) * 11) \div 10

\* price *= 1.1, on tenths
Increase(price) == (price * 11) \div 10

\* df.loc[mask, "price"] *= 1.1: the frame is changed in place
IncreasedInPlace(rows, period) ==
    [i \in DOMAIN rows |->
        IF Mask(rows[i], period)
          THEN [rows[i] EXCEPT !.price = Increase(rows[i].price)]
          ELSE rows[i]]

\* mutant: df_rts2 = df_rts, the frame is not copied
CopyTarget_alias(source, fresh) == source

\* df_rts.copy() is a new frame object; df_rts1 = df_rts is the same object
CopyTarget(source, fresh) == fresh

\* the three names after the cell: frames are objects, names refer to them
Variations(rts, period) ==
    LET before == [o \in {"frame", "copy"} |-> rts]
        ref_rts == "frame"
        ref_rts1 == ref_rts
        ref_rts2 == CopyTarget(ref_rts, "copy")
        after == [before EXCEPT ![ref_rts2] = IncreasedInPlace(before[ref_rts2], period)]
    IN  [df_rts |-> after[ref_rts], df_rts1 |-> after[ref_rts1], df_rts2 |-> after[ref_rts2]]

\* cell "# create different version of RTS with increased future price"
create_variations ==
    /\ phase = "scenario"
    /\ df_rts' = Variations(df_rts, training_data_period).df_rts
    /\ df_rts1' = Variations(df_rts, training_data_period).df_rts1
    /\ df_rts2' = Variations(df_rts, training_data_period).df_rts2
    /\ phase' = "to_csv"
    /\ UNCHANGED <<df, df_tts, training_data_period, horizon, base_rts, extends>>
    /\ UNCHANGED <<pvars, cvars>>

\* df_tts.to_csv(...); df_rts1.to_csv(...); df_rts2.to_csv(...)
to_csv ==
    /\ phase = "to_csv"
    /\ phase' = "done"
    /\ UNCHANGED <<df, df_tts, df_rts, df_rts1, df_rts2, training_data_period,
                   horizon, base_rts, extends>>
    /\ UNCHANGED <<pvars, cvars>>

-----------------------------------------------------------------------------
(* Data preparation: the tables product_demand.csv may hold *)

ItemOrder == <<10, 11>>

Prices == {10, 50}

\* the month with index n (months counted from year 0)
MonthOf(n) == <<n \div 12, (n % 12) + 1, 1>>

\* the latest month of the file: any month of 2020
LastMonths == {2020 * 12 + m : m \in 0 .. 11}

DemandOf(item, n) == item + (n % 12)

\* one item's rows: monthly, ending `off` months before `last`, with the given prices
ItemRows(item, last, shape) ==
    [k \in 1 .. Len(shape.prices) |->
        [item_id |-> item,
         timestamp |-> MonthOf(last - shape.off - Len(shape.prices) + k),
         demand |-> DemandOf(item, last - shape.off - Len(shape.prices) + k),
         price |-> shape.prices[k]]]

ItemShapes ==
    UNION {[off : 0 .. 1, prices : [1 .. n -> Prices]] : n \in 1 .. MaxRows}

RECURSIVE Table(_, _, _)
Table(last, shapes, k) ==
    IF k = 0 THEN <<>>
    ELSE Table(last, shapes, k - 1) \o ItemRows(ItemOrder[k], last, shapes[k])

GenInit ==
    /\ phase = "split"
    /\ \E last \in LastMonths, shapes \in [DOMAIN ItemOrder -> ItemShapes] :
         df = Table(last, shapes, Len(ItemOrder))
    /\ horizon \in 0 .. forecast_horizon
    /\ df_tts = <<>> /\ df_rts = <<>> /\ df_rts1 = <<>> /\ df_rts2 = <<>>
    /\ training_data_period = <<>>
    /\ base_rts = <<>> /\ extends = 0

GenNext == split \/ extend_rts \/ create_variations \/ to_csv

-----------------------------------------------------------------------------
(* The pipeline *)

PipelineInit ==
    /\ pc = "create_dataset_group"
    /\ loop = "init"
    /\ status = "NONE"
    /\ polled = <<>>
    /\ reported = <<>>
    /\ sleeps = 0
    /\ jobStatus = [j \in Jobs |-> "NONE"]
    /\ observed = [j \in Jobs |-> "NONE"]
    /\ calls = <<>>
    /\ nb = [dataset_group_arn |-> 0, tts_dataset_arn |-> 0, rts_dataset_arn |-> 0,
             tts_dataset_import_job_arn |-> 0, rts_dataset_import_job1_arn |-> 0,
             rts_dataset_import_job2_arn |-> 0, predictor_arn |-> 0,
             forecast1_arn |-> 0, forecast2_arn |-> 0]

Kernel ==
    \/ create_dataset_group
    \/ create_dataset_tts
    \/ create_dataset_rts
    \/ update_dataset_group
    \/ import_tts
    \/ import_rts1
    \/ create_auto_predictor
    \/ get_accuracy_metrics
    \/ create_forecast1
    \/ import_rts2
    \/ create_forecast2
    \/ \E cell \in InlineWaitCells : WaitStep(cell)
    \/ util_wait
    \/ resource_cleanup

Service == \E j \in Jobs : RemoteProgress(j)

GenIdle ==
    /\ phase = "idle"
    /\ df = <<>> /\ df_tts = <<>> /\ df_rts = <<>> /\ df_rts1 = <<>> /\ df_rts2 = <<>>
    /\ training_data_period = <<>>
    /\ horizon = 0 /\ base_rts = <<>> /\ extends = 0

-----------------------------------------------------------------------------
(* The comparison cell: plot_compare *)

MaxPoints == 2

NoResponse == [Forecast |-> [Predictions |-> [p10 |-> <<>>, p50 |-> <<>>, p90 |-> <<>>]]]

\* a "YYYY-MM-DDT00:00:00" string of a monthly forecast
TimestampT(ts) == <<ts[1], ts[2], ts[3], 0, 0, 0>>

\* the k-th forecast point after the boundary t0, one per quantile
PointOf(t0, k) ==
    [Timestamp |-> TimestampT(MonthOf(t0[1] * 12 + t0[2] - 1 + k)),
     p10 |-> 10 * k, p50 |-> 10 * k + 1, p90 |-> 10 * k + 2]

\* what query_forecast may return: n points per quantile, in either order
Responses(t0) ==
    {[Forecast |-> [Predictions |->
        [q \in {"p10", "p50", "p90"} |->
            [i \in 1 .. n |->
                [Timestamp |-> PointOf(t0, IF rev THEN n + 1 - i ELSE i).Timestamp,
                 Value |-> PointOf(t0, IF rev THEN n + 1 - i ELSE i)[q]]]]]] :
        n \in 0 .. MaxPoints, rev \in BOOLEAN}

\* datetime.datetime.strptime(s, "%Y-%m-%d"): a datetime at midnight
strptime(ts) == [year |-> ts[1], month |-> ts[2], day |-> ts[3], hour |-> 0, minute |-> 0]

\* datetime.datetime.strptime(s, "%Y-%m-%dT00:00:00")
strptimeT(s) == [year |-> s[1], month |-> s[2], day |-> s[3], hour |-> 0, minute |-> 0]

\* datetime.date()
date(dt) == [year |-> dt.year, month |-> dt.month, day |-> dt.day]

\* df_tts[ df_tts["item_id"] == item_id ]
ItemActual(tts, item) == SelectSeq(tts, LAMBDA r : r.item_id = item)

\* mutant: the anchor is the first training timestamp
Connect_from_start(item_actual, period) == RowsAt(item_actual, period[1])

\* df_item_actual[ df_item_actual["timestamp"] == training_data_period[1] ].reset_index(drop=True)
Connect(item_actual, period) == RowsAt(item_actual, period[2])

Shortest(a, b, c) ==
    IF Len(a) <= Len(b) /\ Len(a) <= Len(c) THEN Len(a)
    ELSE IF Len(b) <= Len(c) THEN Len(b) ELSE Len(c)

\* x, y_p10, y_p50, y_p90 of plot_forecast, given the row df_connect.at[0, ...]
Stream(connect, single_item_forecast) ==
    LET n == Shortest(single_item_forecast["p10"], single_item_forecast["p50"],
                      single_item_forecast["p90"])
    IN  [x |-> <<strptime(connect.timestamp)>> \o
                 [i \in 1 .. n |-> date(strptimeT(single_item_forecast["p50"][i].Timestamp))],
         y_p10 |-> <<connect.demand>> \o [i \in 1 .. n |-> single_item_forecast["p10"][i].Value],
         y_p50 |-> <<connect.demand>> \o [i \in 1 .. n |-> single_item_forecast["p50"][i].Value],
         y_p90 |-> <<connect.demand>> \o [i \in 1 .. n |-> single_item_forecast["p90"][i].Value]]

\* x, y of plot_price
PriceLine(single_item_price, label) ==
    [label |-> label,
     x |-> [i \in DOMAIN single_item_price |-> date(strptime(single_item_price[i].timestamp))],
     y |-> [i \in DOMAIN single_item_price |-> single_item_price[i].price]]

\* the item_ids plot_compare is called with; 12 is in no table
CmpItems == {ItemOrder[1], ItemOrder[2], 12}

\* plot_compare( item_id ) up to the first query; one call per loop iteration
plot_compare(item) ==
    /\ cmp \in {"idle", "returned"}
    /\ item_id' = item
    /\ df_item_actual' = ItemActual(df_tts, item)
    /\ lines' = <<[label |-> "actual",
                   x |-> [i \in DOMAIN df_item_actual' |-> to_datetime(df_item_actual'[i].timestamp)],
                   y |-> [i \in DOMAIN df_item_actual' |-> df_item_actual'[i].demand]]>>
    /\ bands' = <<>>
    /\ response' = NoResponse
    /\ cmp' = "query_forecast1"
    /\ UNCHANGED <<pvars, gvars>>

\* response = forecastquery.query_forecast( ForecastArn, Filters ); it may raise
query_forecast(n) ==
    /\ cmp = IF n = 1 THEN "query_forecast1" ELSE "query_forecast2"
    /\ (IF n = 1 THEN nb.forecast1_arn ELSE nb.forecast2_arn) # 0
    /\ \/ /\ response' \in Responses(training_data_period[2])
          /\ cmp' = IF n = 1 THEN "plot_forecast1" ELSE "plot_forecast2"
       \/ /\ cmp' = "raised"
          /\ UNCHANGED response
    /\ UNCHANGED <<item_id, df_item_actual, lines, bands>>
    /\ UNCHANGED <<pvars, gvars>>

\* plot_forecast( response["Forecast"]["Predictions"], label, color, hatch );
\* the labels "%s p50" % label and "%s p10-p90" % label are pairs
plot_forecast(n) ==
    LET label == IF n = 1 THEN "forecast1" ELSE "forecast2"
        df_connect == Connect(df_item_actual, training_data_period)
    IN  /\ cmp = IF n = 1 THEN "plot_forecast1" ELSE "plot_forecast2"
        /\ IF df_connect = <<>>
             THEN \* df_connect.at[ 0, "timestamp" ] on an empty frame
                  /\ cmp' = "KeyError"
                  /\ UNCHANGED <<lines, bands>>
             ELSE LET s == Stream(df_connect[1], response.Forecast.Predictions)
                  IN  /\ lines' = Append(lines, [label |-> <<label, "p50">>, x |-> s.x, y |-> s.y_p50])
                      /\ bands' = Append(bands, [label |-> <<label, "p10-p90">>, x |-> s.x,
                                                 y_p10 |-> s.y_p10, y_p90 |-> s.y_p90])
                      /\ cmp' = IF n = 1 THEN "query_forecast2" ELSE "plot_price"
        /\ UNCHANGED <<item_id, df_item_actual, response>>
        /\ UNCHANGED <<pvars, gvars>>

\* plot_price( df_rts2[...], "price2", ... ); plot_price( df_rts1[...], "price1", ... )
plot_price ==
    /\ cmp = "plot_price"
    /\ lines' = lines
                  \o <<PriceLine(ItemActual(df_rts2, item_id), "price2")>>
                  \o <<PriceLine(ItemActual(df_rts1, item_id), "price1")>>
    /\ cmp' = "returned"
    /\ UNCHANGED <<item_id, df_item_actual, response, bands>>
    /\ UNCHANGED <<pvars, gvars>>

CmpNext ==
    \/ \E item \in CmpItems : plot_compare(item)
    \/ \E n \in {1, 2} : query_forecast(n)
    \/ \E n \in {1, 2} : plot_forecast(n)
    \/ plot_price

\* every pipeline cell has run and every job was observed ACTIVE
PipelineDone ==
    /\ pc = "done" /\ loop = "init" /\ status = "ACTIVE"
    /\ polled = <<"ACTIVE">> /\ reported = <<"ACTIVE">> /\ sleeps = 0
    /\ jobStatus = [j \in Jobs |-> "ACTIVE"]
    /\ observed = [j \in Jobs |-> "ACTIVE"]
    /\ calls = <<[op |-> "create_dataset_group", name |-> "whatif_analysis_dsg", ref |-> 0, arn |-> 1],
                 [op |-> "create_dataset", name |-> "TARGET_TIME_SERIES", ref |-> 0, arn |-> 2],
                 [op |-> "create_dataset", name |-> "RELATED_TIME_SERIES", ref |-> 0, arn |-> 3],
                 [op |-> "create_dataset_import_job", name |-> "tts_import", ref |-> 2, arn |-> 4],
                 [op |-> "create_dataset_import_job", name |-> "rts_import1", ref |-> 3, arn |-> 5],
                 [op |-> "create_auto_predictor", name |-> "predictor", ref |-> 1, arn |-> 6],
                 [op |-> "create_forecast", name |-> "forecast1", ref |-> 6, arn |-> 7],
                 [op |-> "create_dataset_import_job", name |-> "rts_import2", ref |-> 3, arn |-> 8],
                 [op |-> "create_forecast", name |-> "forecast2", ref |-> 6, arn |-> 9]>>
    /\ nb = [dataset_group_arn |-> 1, tts_dataset_arn |-> 2, rts_dataset_arn |-> 3,
             tts_dataset_import_job_arn |-> 4, rts_dataset_import_job1_arn |-> 5,
             rts_dataset_import_job2_arn |-> 8, predictor_arn |-> 6,
             forecast1_arn |-> 7, forecast2_arn |-> 9]

\* the file the comparison is run on ends in December 2020
CmpLastMonths == {m \in LastMonths : m % 12 = 11}

\* every data preparation cell has run once
GenDone ==
    /\ phase = "done"
    /\ \E last \in CmpLastMonths, shapes \in [DOMAIN ItemOrder -> ItemShapes] :
         df = Table(last, shapes, Len(ItemOrder))
    /\ df_tts = Tts(df)
    /\ base_rts = Rts(df)
    /\ horizon = forecast_horizon
    /\ extends = 1
    /\ training_data_period = <<TsMin(df_tts), TsMax(df_tts)>>
    /\ df_rts = Extended(base_rts, df_tts, horizon)
    /\ df_rts1 = Variations(df_rts, training_data_period).df_rts1
    /\ df_rts2 = Variations(df_rts, training_data_period).df_rts2

CmpIdle ==
    /\ cmp = "idle" /\ item_id = 0
    /\ df_item_actual = <<>> /\ response = NoResponse
    /\ lines = <<>> /\ bands = <<>>

Init == PipelineInit /\ GenIdle /\ CmpIdle

Next == Kernel \/ Service \/ ClientError

Spec == Init /\ [][Next]_vars

SpecFair == Spec /\ WF_vars(Kernel) /\ WF_vars(Service)

InitGen == GenInit /\ PipelineInit /\ CmpIdle

SpecGen == InitGen /\ [][GenNext]_vars

InitCmp == PipelineDone /\ GenDone /\ CmpIdle

SpecCmp == InitCmp /\ [][CmpNext]_vars

-----------------------------------------------------------------------------
(* Properties of the pipeline *)

Terminal == {"ACTIVE", "CREATE_FAILED"}

CallsOf(op) == {i \in DOMAIN calls : calls[i].op = op}

CallsNamed(name) == {i \in DOMAIN calls : calls[i].name = name}

Submitted(j) == CallsNamed(j) # {}

\* submitted, and its wait loop has not yet been left with a terminal status
Unawaited == {j \in Jobs : Submitted(j) /\ observed[j] \notin Terminal}

VariantImport(v) == IF v = 1 THEN "rts_import1" ELSE "rts_import2"

VariantForecast(v) == IF v = 1 THEN "forecast1" ELSE "forecast2"

Last(seq) == seq[Len(seq)]

\* C1: for every scenario variant v, the forecast job of v is submitted only
\* after the wait loop of the driver import of v has seen a terminal status of
\* that import job.
C1_ForecastAfterImportAwaited ==
    \A v \in {1, 2} :
        Submitted(VariantForecast(v)) =>
            /\ observed[VariantImport(v)] \in Terminal
            /\ jobStatus[VariantImport(v)] = observed[VariantImport(v)]

C1_Witness ==
    /\ Submitted("forecast2")
    /\ observed["rts_import2"] = "ACTIVE"
    /\ observed["rts_import1"] = "ACTIVE"

\* C2: only ACTIVE permits proceeding: no predictor is created after a failed
\* import, and no forecast after a failed import or a failed predictor.
C2_NoDependentAfterFailed ==
    /\ Submitted("predictor") =>
         observed["tts_import"] # "CREATE_FAILED" /\ observed["rts_import1"] # "CREATE_FAILED"
    /\ Submitted("forecast1") =>
         /\ observed["tts_import"] # "CREATE_FAILED"
         /\ observed["rts_import1"] # "CREATE_FAILED"
         /\ observed["predictor"] # "CREATE_FAILED"
    /\ Submitted("forecast2") =>
         /\ observed["rts_import2"] # "CREATE_FAILED"
         /\ observed["predictor"] # "CREATE_FAILED"

\* C3: at most one predictor is ever created, every forecast refers to the
\* ARN of that one predictor, and a completed run has created exactly one
\* predictor and exactly two forecasts.
C3_OnePredictorTwoForecasts ==
    /\ Cardinality(CallsOf("create_auto_predictor")) <= 1
    /\ \A i \in CallsOf("create_forecast") :
         \E k \in CallsOf("create_auto_predictor") : k < i /\ calls[i].ref = calls[k].arn
    /\ pc = "done" =>
         /\ Cardinality(CallsOf("create_auto_predictor")) = 1
         /\ Cardinality(CallsOf("create_forecast")) = 2
         /\ Cardinality(CallsNamed("forecast1")) = 1
         /\ Cardinality(CallsNamed("forecast2")) = 1

C3_Witness ==
    /\ pc = "done"
    /\ Cardinality(CallsOf("create_forecast")) = 2
    /\ observed["forecast2"] = "ACTIVE"

\* C4 as stated: at most one job is submitted and not yet awaited.
C4_OneAtATime == Cardinality(Unawaited) <= 1

\* C4 amended: the target import and the first driver import are submitted
\* back to back before either is awaited; apart from that pair at most one job
\* is submitted and not yet awaited.
C4_OneAtATimeButFirstImports ==
    \/ Cardinality(Unawaited) <= 1
    \/ Unawaited = {"tts_import", "rts_import1"}

C4_Witness ==
    /\ Unawaited = {"tts_import", "rts_import1"}
    /\ pc = "wait_tts_import" /\ loop = "sleep"

\* C5: a wait loop polls up to and including the first terminal status and no
\* further, sleeps once between two polls and not after the terminal one, and
\* is left with that terminal status as `status`.
C5_PollUntilTerminal ==
    /\ \A i \in 1 .. Len(polled) - 1 : polled[i] \notin Terminal
    /\ loop = "describe" => sleeps = Len(polled)
    /\ loop \in {"update", "check", "sleep"} => sleeps = Len(polled) - 1
    /\ loop = "sleep" => Last(polled) \notin Terminal
    /\ loop = "end" =>
         /\ polled # <<>>
         /\ Last(polled) \in Terminal
         /\ status = Last(polled)
         /\ sleeps = Len(polled) - 1
    /\ \A j \in Jobs : observed[j] # "NONE" => observed[j] \in Terminal
    /\ (loop = "init" /\ polled # <<>>) =>
         Last(polled) \in Terminal /\ sleeps = Len(polled) - 1

C5_Witness ==
    /\ loop = "end"
    /\ polled = <<"CREATE_PENDING", "CREATE_PENDING", "ACTIVE">>
    /\ sleeps = 2
    /\ status = "ACTIVE"

\* C6: a wait loop is left only on a terminal status, however many polls it
\* took (no timeout), and when every submitted job eventually becomes ACTIVE
\* or CREATE_FAILED the run ends.
C6_NoTimeoutAndTermination ==
    /\ [][(pc \in WaitCells /\ loop # "end" /\ loop' = "end") => status \in Terminal]_vars
    /\ [][(pc \in WaitCells /\ pc' \notin {pc, "raised"}) =>
            (status \in Terminal /\ jobStatus[WaitJob(pc)] = status)]_vars
    /\ <>(pc \in {"done", "raised"})

C6_Witness ==
    /\ pc = "done"
    /\ Len(polled) = MaxPolls + 1
    /\ sleeps = MaxPolls

\* C7: CREATE_FAILED leaves the wait loop the way ACTIVE does (no error is
\* raised, the next cell runs), the failed job is not submitted again and is
\* not polled again.
C7_FailedIsNormalOutcome ==
    /\ [][(pc \in WaitCells /\ loop = "check" /\ status = "CREATE_FAILED") =>
            (pc' = pc /\ loop' \in {"check", "end"} /\ calls' = calls)]_vars
    /\ [][(pc \in WaitCells /\ loop = "end" /\ pc' # pc) =>
            (pc' = AfterWait(pc) /\ observed'[WaitJob(pc)] = status /\ calls' = calls)]_vars
    /\ [](\A j \in Jobs : Cardinality(CallsNamed(j)) <= 1)
    /\ [](\A i \in 1 .. Len(polled) - 1 : polled[i] # "CREATE_FAILED")

C7_Witness ==
    /\ observed["rts_import1"] = "CREATE_FAILED"
    /\ pc = "create_auto_predictor"
    /\ Len(polled) = 2

\* position of the create_* call with that name in the log (0 = not made)
CallIndex(name) ==
    IF CallsNamed(name) = {} THEN 0 ELSE CHOOSE i \in CallsNamed(name) : TRUE

InProgress(j) == jobStatus[j] \in {"CREATE_PENDING", "CREATE_IN_PROGRESS"}

\* C15: at most one target and one driver dataset are created, both before
\* any import; the target series is imported once, into the target dataset;
\* both driver imports go into the one driver dataset; a completed run has
\* created exactly these two datasets and three import jobs.
C15_OneDriverDatasetReused ==
    /\ Cardinality(CallsOf("create_dataset")) <= 2
    /\ Cardinality(CallsNamed("TARGET_TIME_SERIES")) <= 1
    /\ Cardinality(CallsNamed("RELATED_TIME_SERIES")) <= 1
    /\ \A i \in CallsOf("create_dataset_import_job") :
         /\ \A k \in CallsOf("create_dataset") : k < i
         /\ Cardinality(CallsOf("create_dataset")) = 2
         /\ calls[i].name = "tts_import" =>
              calls[i].ref = calls[CallIndex("TARGET_TIME_SERIES")].arn
         /\ calls[i].name \in {"rts_import1", "rts_import2"} =>
              calls[i].ref = calls[CallIndex("RELATED_TIME_SERIES")].arn
    /\ Cardinality(CallsNamed("tts_import")) <= 1
    /\ pc = "done" =>
         /\ Cardinality(CallsOf("create_dataset")) = 2
         /\ Cardinality(CallsOf("create_dataset_import_job")) = 3
         /\ Cardinality(CallsNamed("tts_import")) = 1

C15_Witness ==
    /\ pc = "done"
    /\ Submitted("rts_import1") /\ Submitted("rts_import2")
    /\ calls[CallIndex("rts_import2")].ref = nb.rts_dataset_arn
    /\ calls[CallIndex("rts_import1")].ref = nb.rts_dataset_arn
    /\ nb.rts_dataset_arn # nb.tts_dataset_arn

\* C16: at most one import job into the driver dataset is in progress at any
\* time: the second driver import is submitted only after the wait loop of
\* the first has seen it terminal.
C16_OneDriverWriter ==
    /\ ~(InProgress("rts_import1") /\ InProgress("rts_import2"))
    /\ Submitted("rts_import2") =>
         /\ observed["rts_import1"] \in Terminal
         /\ jobStatus["rts_import1"] \in Terminal

C16_Witness ==
    /\ InProgress("rts_import2")
    /\ jobStatus["rts_import1"] = "ACTIVE"
    /\ pc = "wait_rts_import2" /\ loop = "sleep"

\* C18: the calls are made in the order dataset group, target dataset, driver
\* dataset, target import, first driver import, predictor, forecast 1; the
\* predictor is created only after both imports were seen terminal, and
\* forecast 1 only after the wait for the predictor has returned.
C18_FixedStepOrder ==
    /\ Submitted("predictor") =>
         /\ observed["tts_import"] \in Terminal
         /\ observed["rts_import1"] \in Terminal
         /\ jobStatus["tts_import"] \in Terminal
         /\ jobStatus["rts_import1"] \in Terminal
    /\ Submitted("forecast1") =>
         /\ observed["predictor"] \in Terminal
         /\ jobStatus["predictor"] \in Terminal
    /\ Submitted("tts_import") =>
         0 < CallIndex("TARGET_TIME_SERIES")
           /\ CallIndex("TARGET_TIME_SERIES") < CallIndex("RELATED_TIME_SERIES")
           /\ CallIndex("RELATED_TIME_SERIES") < CallIndex("tts_import")
    /\ Submitted("rts_import1") => 0 < CallIndex("tts_import")
                                   /\ CallIndex("tts_import") < CallIndex("rts_import1")
    /\ Submitted("predictor") => CallIndex("rts_import1") < CallIndex("predictor")
    /\ Submitted("forecast1") => CallIndex("predictor") < CallIndex("forecast1")
    /\ (pc = "wait_rts_import1" \/ Submitted("predictor")) => observed["tts_import"] \in Terminal

C18_Witness ==
    /\ pc = "wait_forecast1" /\ loop = "describe"
    /\ observed["tts_import"] = "ACTIVE"
    /\ observed["rts_import1"] = "ACTIVE"
    /\ observed["predictor"] = "ACTIVE"

CreateOps == {"create_dataset_group", "create_dataset", "create_dataset_import_job",
              "create_auto_predictor", "create_forecast"}

\* every ARN held in a notebook global is that of a resource a create_* call made
HandlesExist ==
    \A g \in DOMAIN nb :
        nb[g] # 0 => (nb[g] \in DOMAIN calls /\ calls[nb[g]].arn = nb[g]
                      /\ calls[nb[g]].op \in CreateOps)

\* C19: no delete_* call is ever made, also not by the clean-up cells, and
\* every resource created in the run still exists when the run has ended.
C19_NothingDeleted ==
    /\ \A i \in DOMAIN calls : calls[i].op \in CreateOps
    /\ HandlesExist
    /\ pc = "done" =>
         /\ Cardinality(DOMAIN calls) = 9
         /\ \A g \in DOMAIN nb : nb[g] # 0
         /\ \A j \in Jobs : jobStatus[j] \in Terminal

C19_Witness ==
    /\ pc = "done"
    /\ Len(calls) = 9
    /\ \A j \in Jobs : jobStatus[j] = "ACTIVE"

\* C20: every status a poll returns, the terminal one included, is handed to
\* status_indicator.update before the break test: at the test and from then
\* on the reported statuses are the polled statuses.
C20_EveryPollReported ==
    /\ loop \in {"check", "sleep", "end", "describe"} => reported = polled
    /\ loop = "update" =>
         /\ polled # <<>>
         /\ reported = SubSeq(polled, 1, Len(polled) - 1)
         /\ status = Last(polled)
    /\ loop = "init" => reported = polled
    /\ loop = "end" => (reported # <<>> /\ Last(reported) \in Terminal)

C20_Witness ==
    /\ loop = "check"
    /\ status = "CREATE_FAILED"
    /\ reported = <<"CREATE_PENDING", "CREATE_IN_PROGRESS", "CREATE_FAILED">>

-----------------------------------------------------------------------------
(* Properties of the data preparation *)

ItemsOf(rows) == {rows[i].item_id : i \in DOMAIN rows}

RowsOfItem(rows, e) == SelectSeq(rows, LAMBDA r : r.item_id = e)

\* the timestamp k calendar months after ts
AddMonths(ts, k) == MonthOf(ts[1] * 12 + (ts[2] - 1) + k)

NoDuplicateTimestamps(rows) ==
    \A i, j \in DOMAIN rows :
        (i # j /\ rows[i].item_id = rows[j].item_id) => rows[i].timestamp # rows[j].timestamp

\* C8: after the extend cell has run once, every item has exactly `horizon`
\* new rows, each with the item's last known price, at the 1st, 2nd, ...
\* month after the item's last historical timestamp, and the original rows
\* are unchanged.
C8_ExtendAddsHorizonRowsPerItem ==
    extends = 1 =>
        /\ SubSeq(df_rts, 1, Len(base_rts)) = base_rts
        /\ \A e \in ItemsOf(base_rts) :
             LET old == RowsOfItem(base_rts, e)
                 new == RowsOfItem(df_rts, e)
             IN  /\ Len(new) = Len(old) + horizon
                 /\ SubSeq(new, 1, Len(old)) = old
                 /\ \A k \in 1 .. horizon :
                      Len(old) + k <= Len(new) =>
                        /\ new[Len(old) + k].price = Last(old).price
                        /\ new[Len(old) + k].timestamp = AddMonths(Last(old).timestamp, k)

\* C9: running the extend cell again on the extended series changes nothing,
\* so no item ever has two rows with the same timestamp.
C9_ExtendIdempotent ==
    /\ [][(extends >= 1 /\ extends' = extends + 1) => df_rts' = df_rts]_vars
    /\ [](NoDuplicateTimestamps(df_rts))

\* C10: in the second variation every row keeps its item_id and timestamp,
\* and every row of an item after "item_010" or with a timestamp not after the
\* last training timestamp keeps its price; the historical rows are unchanged.
C10_RowsOutsideScenarioUnchanged ==
    phase \in {"to_csv", "done"} =>
        /\ Len(df_rts2) = Len(df_rts)
        /\ \A i \in DOMAIN df_rts :
             /\ df_rts2[i].item_id = df_rts[i].item_id
             /\ df_rts2[i].timestamp = df_rts[i].timestamp
             /\ (df_rts[i].item_id > 10 \/ ~TsLess(training_data_period[2], df_rts[i].timestamp))
                  => df_rts2[i].price = df_rts[i].price
        /\ SubSeq(df_rts2, 1, Len(base_rts)) = base_rts

C10_Witness ==
    /\ phase = "done"
    /\ \E i \in DOMAIN df_rts2 : df_rts2[i].price # df_rts[i].price
    /\ \E i \in DOMAIN df_rts2 :
         /\ df_rts2[i].item_id = 11
         /\ TsLess(training_data_period[2], df_rts2[i].timestamp)
         /\ df_rts2[i].price = df_rts[i].price
    /\ \E i \in DOMAIN df_rts2 :
         /\ df_rts2[i].item_id = 10
         /\ df_rts2[i].timestamp = training_data_period[2]

\* the rows of `rows` for item e at timestamp ts
RowsFor(rows, e, ts) == SelectSeq(rows, LAMBDA r : r.item_id = e /\ r.timestamp = ts)

\* C11: in the second variation every row of an item up to "item_010" with a
\* timestamp after the last training timestamp has 1.1 times the price it has
\* in the first variation, applied once; after one extension an item with
\* price p at the boundary M has 1.1 p at M+1 .. M+horizon in the second
\* variation and p in the first.
C11_ScenarioAppliedOnce ==
    phase \in {"to_csv", "done"} =>
        /\ Len(df_rts2) = Len(df_rts1)
        /\ \A i \in DOMAIN df_rts1 :
             (df_rts1[i].item_id <= 10 /\ TsLess(training_data_period[2], df_rts1[i].timestamp))
               => df_rts2[i].price = (df_rts1[i].price * 11) \div 10
        /\ extends = 1 =>
             \A e \in {x \in ItemsOf(base_rts) : x <= 10} :
               LET at == RowsFor(base_rts, e, training_data_period[2])
               IN  \A k \in 1 .. horizon :
                     Len(at) = 1 =>
                       /\ RowsFor(df_rts1, e, AddMonths(training_data_period[2], k)) =
                            <<[item_id |-> e,
                               timestamp |-> AddMonths(training_data_period[2], k),
                               price |-> at[1].price]>>
                       /\ RowsFor(df_rts2, e, AddMonths(training_data_period[2], k)) =
                            <<[item_id |-> e,
                               timestamp |-> AddMonths(training_data_period[2], k),
                               price |-> (at[1].price * 11) \div 10]>>

C11_Witness ==
    /\ phase = "done" /\ extends = 1 /\ horizon = 3
    /\ \E i \in DOMAIN base_rts :
         /\ base_rts[i] = [item_id |-> 10, timestamp |-> training_data_period[2], price |-> 50]
    /\ \A k \in 1 .. 3 :
         /\ RowsFor(df_rts2, 10, AddMonths(training_data_period[2], k)) =
              <<[item_id |-> 10, timestamp |-> AddMonths(training_data_period[2], k),
                 price |-> 55]>>
         /\ RowsFor(df_rts1, 10, AddMonths(training_data_period[2], k)) =
              <<[item_id |-> 10, timestamp |-> AddMonths(training_data_period[2], k),
                 price |-> 50]>>

\* C12: creating the second variation changes neither df_rts nor the first
\* variation, and nothing changes any of the three afterwards.
C12_BaseAndFirstVariationUntouched ==
    /\ [][(phase = "scenario" /\ phase' = "to_csv") =>
            (df_rts' = df_rts /\ df_rts1' = df_rts)]_vars
    /\ [][phase = "to_csv" =>
            (df_rts' = df_rts /\ df_rts1' = df_rts1 /\ df_rts2' = df_rts2)]_vars

C12_Witness ==
    /\ phase = "done"
    /\ df_rts1 = df_rts
    /\ df_rts2 # df_rts1
    /\ \E i \in DOMAIN df_rts2 : df_rts2[i].price = 55 /\ df_rts1[i].price = 50

\* C17: with the boundary in month m of year y, the k-th appended period is
\* month ((m - 1 + k) mod 12) + 1 of year y + ((m - 1 + k) div 12), for every
\* row appended for that period.
C17_CalendarRollover ==
    extends = 1 =>
        LET y == training_data_period[2][1]
            m == training_data_period[2][2]
            n == Len(RowsAt(base_rts, training_data_period[2]))
        IN  /\ Len(df_rts) = Len(base_rts) + horizon * n
            /\ \A k \in 1 .. horizon : \A r \in 1 .. n :
                 df_rts[Len(base_rts) + (k - 1) * n + r].timestamp =
                     <<y + ((m - 1 + k) \div 12), ((m - 1 + k) % 12) + 1, 1>>

C17_Witness ==
    /\ extends = 1 /\ horizon = 3
    /\ training_data_period[2] = <<2020, 11, 1>>
    /\ Last(df_rts).timestamp = <<2021, 2, 1>>
    /\ df_rts[Len(base_rts) + 1].timestamp = <<2020, 12, 1>>

-----------------------------------------------------------------------------
(* Properties of the comparison *)

\* the rows of the target series of the compared item at the boundary timestamp
ActualAtBoundary ==
    SelectSeq(df_tts, LAMBDA r : r.item_id = item_id /\ r.timestamp = training_data_period[2])

\* plot_forecast has run for the response now held in `response`
Plotted == cmp \in {"query_forecast2", "plot_price", "returned"}

C14_AbsentEntityYieldsEmptyStream ==
    /\ cmp # "KeyError"
    /\ (Plotted /\ response.Forecast.Predictions["p50"] = <<>>) =>
         bands[Len(bands)].x = <<>>

-----------------------------------------------------------------------------
(* The driver dataset while a forecast is generated *)

DriverImports == {"rts_import1", "rts_import2"}

\* C21: the import of the second variation is submitted only after the wait
\* loop of the first forecast has seen that forecast terminal, and no driver
\* import is pending or in progress while a forecast job is pending or in
\* progress.
C21_NoImportWhileForecasting ==
    /\ \A i \in DriverImports, f \in ForecastJobs : ~(InProgress(i) /\ InProgress(f))
    /\ Submitted("rts_import2") =>
         /\ Submitted("forecast1")
         /\ observed["forecast1"] \in Terminal
         /\ jobStatus["forecast1"] = observed["forecast1"]

C21_Witness ==
    /\ jobStatus["rts_import2"] = "CREATE_IN_PROGRESS"
    /\ observed["forecast1"] = "ACTIVE"
    /\ jobStatus["forecast1"] = "ACTIVE"
    /\ jobStatus["forecast2"] = "NONE"

-----------------------------------------------------------------------------
(* The boundary of the extension *)

=============================================================================
